---- MODULE Spec2Model ----
(***************************************************************************)
(* Model of garage's Regressor2 / StochasticRegressor2 parameter           *)
(* bookkeeping (garage/tf/regressors/base2.py) and of the                  *)
(* DiscreteMLPQFunction network building                                   *)
(* (garage/tf/q_functions/discrete_mlp_q_function.py).                     *)
(*                                                                         *)
(* Numbers are modelled in units of one half: the value n stands for n/2,  *)
(* so that a cast to an integer dtype is not the identity.                 *)
(***************************************************************************)
EXTENDS Integers, Sequences, FiniteSets, TLC

VARIABLES
    self,          \* the regressor's __dict__: attribute name -> value
    overridden,    \* does the object's class override get_params_internal?
    variables,     \* the graph's variables of the regressor, in creation order
    session,       \* the default session: variable -> its current flat value
    placeholders,  \* number of assign placeholders created in the graph
    snapshots,     \* the mappings __getstate__ has returned
    call,          \* the last method call made on the regressor and its outcome
    trace,         \* history: get_params_internal invocations, assign ops made
    ncalls,        \* number of method calls made on the regressor so far
    qf,            \* the DiscreteMLPQFunction's __dict__
    qargs,         \* the arguments the Q-function was constructed with
    qcall          \* the last call made on the Q-function and its outcome

rvars == <<self, overridden, variables, session, placeholders, snapshots, call,
           trace, ncalls>>
qvars == <<qf, qargs, qcall>>
vars == <<self, overridden, variables, session, placeholders, snapshots, call,
          trace, ncalls, qf, qargs, qcall>>

----------------------------------------------------------------------------
(* Bounds *)

\* largest number (in halves) a flat parameter vector may hold
MaxVal == 2
\* most keyword tags in one call
MaxTags == 2
\* most method calls (other than pickling and unpickling) made on one regressor
MaxCalls == 2

----------------------------------------------------------------------------
(* Python values *)

None == "None"
EmptyDict == [k \in {} |-> None]

\* d[k] = v
DictSet(d, k, v) == (k :> v) @@ d
\* del d[k]
DictDel(d, k) == [x \in DOMAIN d \ {k} |-> d[x]]
\* d.update(s)
DictUpdate(d, s) == s @@ d

RECURSIVE Prod(_)
Prod(shape) == IF shape = <<>> THEN 1 ELSE Head(shape) * Prod(Tail(shape))

RECURSIVE Concat(_)
Concat(seqs) == IF seqs = <<>> THEN <<>> ELSE Head(seqs) \o Concat(Tail(seqs))

RECURSIVE Sum(_)
Sum(ns) == IF ns = <<>> THEN 0 ELSE Head(ns) + Sum(Tail(ns))

Min(a, b) == IF a < b THEN a ELSE b

\* s[lo:hi] of Python: the items after the first lo up to the hi-th, as far
\* as s has them
Slice(s, lo, hi) ==
    LET end == Min(hi, Len(s))
    IN  IF end <= lo THEN <<>> ELSE [i \in 1..(end - lo) |-> s[lo + i]]

\* all sequences over S of length at most n
SeqsUpTo(S, n) == UNION {[1..k -> S] : k \in 0..n}

----------------------------------------------------------------------------
(* Keyword tags *)

\* the tags callers filter by, and the reserved keyword of set_param_values
TagItems == {<<"trainable", TRUE>>, <<"regularizable", FALSE>>}
DebugItems == {<<"debug", TRUE>>}

\* Python orders strings lexicographically
NameRank(n) ==
    CASE n = "debug" -> 1
      [] n = "regularizable" -> 2
      [] n = "trainable" -> 3

DistinctNames(kw) == \A i, j \in DOMAIN kw : kw[i][1] = kw[j][1] => i = j

\* **tags as received: (name, value) pairs in the order the caller wrote them
Kwargs(items) == {kw \in SeqsUpTo(items, MaxTags) : DistinctNames(kw)}

\* the tag set a call names, whatever the order of its keywords
TagSet(kw) == {kw[i] : i \in DOMAIN kw}

RECURSIVE InsertByName(_, _)
InsertByName(item, sorted) ==
    IF sorted = <<>> THEN <<item>>
    ELSE IF NameRank(item[1]) < NameRank(Head(sorted)[1])
         THEN <<item>> \o sorted
         ELSE <<Head(sorted)>> \o InsertByName(item, Tail(sorted))

RECURSIVE SortedByName(_)
SortedByName(items) ==
    IF items = <<>> THEN <<>>
    ELSE InsertByName(items[Len(items)], SortedByName(SubSeq(items, 1, Len(items) - 1)))

\* a key that keeps the order in which the caller wrote the keywords
tag_tuple_unsorted(tags) == tags

\* tuple(sorted(list(tags.items()), key=lambda x: x[0]))
tag_tuple(tags) == SortedByName(tags)

\* tags.pop('debug', False)
PopDebug(kw) == SelectSeq(kw, LAMBDA item : item[1] # "debug")

----------------------------------------------------------------------------
(* The graph engine: variables, values, placeholders *)

VarNames == {"W", "b"}

\* what the subclass declared for each of its variables
VarAttrs ==
    [W |-> [trainable |-> TRUE, regularizable |-> TRUE,
            dtype |-> "float32", shape |-> <<1, 2>>],
     b |-> [trainable |-> TRUE, regularizable |-> FALSE,
            dtype |-> "int32", shape |-> <<1>>]]

Val == 0..MaxVal

\* value.astype(dtype), on numbers counted in halves
AsType(data, dtype) ==
    IF dtype = "int32" THEN [i \in DOMAIN data |-> data[i] - (data[i] % 2)]
    ELSE data

Zeros(shape) == [i \in 1..Prod(shape) |-> 0]

\* tf.get_default_session().run(params): the arrays the variables hold
RunFetch(params) ==
    [i \in 1..Len(params) |->
        [dtype |-> VarAttrs[params[i]].dtype,
         shape |-> VarAttrs[params[i]].shape,
         data  |-> session[params[i]]]]

\* tf.get_default_session().run(ops, feed_dict=feed_dict): every assign op
\* writes the array fed to its placeholder, converted to the placeholder's
\* dtype, into its variable
RunAssign(ops, feed_dict) ==
    [v \in DOMAIN session |->
        IF \E i \in DOMAIN ops : ops[i].ref = v
        THEN LET i == CHOOSE i \in DOMAIN ops : ops[i].ref = v
             IN  AsType(feed_dict[ops[i].value].data, ops[i].value.dtype)
        ELSE session[v]]

\* garage.misc.tensor_utils.flatten_tensors
flatten_tensors(tensors) == Concat([i \in 1..Len(tensors) |-> tensors[i].data])

\* garage.misc.tensor_utils.unflatten_tensors: np.split at the running sums of
\* the sizes, each piece reshaped to its shape; a piece of the wrong size
\* cannot be reshaped
unflatten_tensors(flattened, tensor_shapes) ==
    LET sizes == [i \in 1..Len(tensor_shapes) |-> Prod(tensor_shapes[i])]
        start(i) == Sum(Slice(sizes, 0, i - 1))
        piece(i) == IF i = Len(sizes)
                    THEN Slice(flattened, start(i), Len(flattened))
                    ELSE Slice(flattened, start(i), start(i) + sizes[i])
        fits == \A i \in 1..Len(sizes) : Len(piece(i)) = sizes[i]
    IN  IF fits
        THEN [err |-> "ok",
              ret |-> [i \in 1..Len(sizes) |->
                          [shape |-> tensor_shapes[i], data |-> piece(i)]]]
        ELSE [err |-> "ValueError", ret |-> None]

----------------------------------------------------------------------------
(* Regressor2 *)

CacheKeys ==
    {"_cached_params", "_cached_param_dtypes", "_cached_param_shapes",
     "_cached_assign_ops", "_cached_assign_placeholders"}

\* Regressor2.__init__
RegressorInit(input_shape, output_dim, name) ==
    [_input_shape |-> input_shape,
     _output_dim |-> output_dim,
     _name |-> name,
     _variable_scope |-> None,
     _cached_params |-> EmptyDict,
     _cached_param_dtypes |-> EmptyDict,
     _cached_param_shapes |-> EmptyDict,
     _cached_assign_ops |-> EmptyDict,
     _cached_assign_placeholders |-> EmptyDict]

\* The history kept beside the object: since the caches were last emptied, the
\* get_params_internal invocations of each tag set (the keywords given, the
\* outcome, the list returned) and the number of assign ops created for each
\* parameter; and the invocations made before the caches were last emptied.
NoTrace == [internal |-> EmptyDict, assigns |-> EmptyDict, before |-> EmptyDict]

\* The methods below are functions of a machine state m = [obj, ph, trace]
\* (the object's __dict__, the graph's placeholder count, the history) that
\* yield the new machine state, the outcome and the value returned.
Machine == [obj |-> self, ph |-> placeholders, trace |-> trace]

Return(m, v) == [m |-> m, err |-> "ok", ret |-> v]
Raise(m, e) == [m |-> m, err |-> e, ret |-> None]

\* m.obj[attr][key] = v
CacheStore(m, attr, key, v) ==
    [m EXCEPT !.obj = DictSet(m.obj, attr, DictSet(m.obj[attr], key, v))]

\* history: one more get_params_internal invocation for the tag set
LogInternal(m, tags, err, ret) ==
    LET log == m.trace.internal
        old == IF TagSet(tags) \in DOMAIN log THEN log[TagSet(tags)] ELSE <<>>
        entry == [tags |-> tags, err |-> err, ret |-> ret]
    IN  [m EXCEPT !.trace.internal = DictSet(log, TagSet(tags), Append(old, entry))]

\* history: one more assign op created for the parameter
LogAssign(m, param) ==
    LET log == m.trace.assigns
        old == IF param \in DOMAIN log THEN log[param] ELSE 0
    IN  [m EXCEPT !.trace.assigns = DictSet(log, param, old + 1)]

\* a subclass's get_params_internal: its variables carrying every given tag
SubclassParams(vs, tags) ==
    SelectSeq(vs, LAMBDA v : \A i \in DOMAIN tags :
                            /\ tags[i][1] \in DOMAIN VarAttrs[v]
                            /\ VarAttrs[v][tags[i][1]] = tags[i][2])

\* a base get_params_internal that returns an empty list instead of raising
get_params_internal_empty(m, tags) ==
    IF overridden
    THEN LET params == SubclassParams(variables, tags)
         IN  Return(LogInternal(m, tags, "ok", params), params)
    ELSE Return(LogInternal(m, tags, "ok", <<>>), <<>>)

\* Regressor2.get_params_internal, or the subclass's override of it
get_params_internal(m, tags) ==
    IF overridden
    THEN LET params == SubclassParams(variables, tags)
         IN  Return(LogInternal(m, tags, "ok", params), params)
    ELSE Raise(LogInternal(m, tags, "NotImplementedError", <<>>), "NotImplementedError")

\* a get_params that asks get_params_internal on every call and overwrites
\* the stored entry
get_params_refreshing(m, tags) ==
    LET r == get_params_internal(m, tags)
    IN  IF r.err # "ok" THEN r
        ELSE Return(CacheStore(r.m, "_cached_params", tag_tuple(tags), r.ret), r.ret)

\* a get_params that hands on what get_params_internal returns, whatever is
\* stored, and stores only a first result
get_params_unstored(m, tags) ==
    LET r == get_params_internal(m, tags)
    IN  IF r.err # "ok" THEN r
        ELSE IF tag_tuple(tags) \in DOMAIN r.m.obj["_cached_params"]
             THEN Return(r.m, r.ret)
             ELSE Return(CacheStore(r.m, "_cached_params", tag_tuple(tags), r.ret), r.ret)

\* Regressor2.get_params
get_params(m, tags) ==
    LET key == tag_tuple(tags)
    IN  IF key \notin DOMAIN m.obj["_cached_params"]
        THEN LET r == get_params_internal(m, tags)
             IN  IF r.err # "ok" THEN r
                 ELSE Return(CacheStore(r.m, "_cached_params", key, r.ret), r.ret)
        ELSE Return(m, m.obj["_cached_params"][key])

\* Regressor2.get_param_dtypes
get_param_dtypes(m, tags) ==
    LET key == tag_tuple(tags)
    IN  IF key \notin DOMAIN m.obj["_cached_param_dtypes"]
        THEN LET r == get_params(m, tags)
             IN  IF r.err # "ok" THEN r
                 ELSE LET param_values == RunFetch(r.ret)
                          dtypes == [i \in 1..Len(param_values) |-> param_values[i].dtype]
                      IN  Return(CacheStore(r.m, "_cached_param_dtypes", key, dtypes),
                                 dtypes)
        ELSE Return(m, m.obj["_cached_param_dtypes"][key])

\* Regressor2.get_param_shapes
get_param_shapes(m, tags) ==
    LET key == tag_tuple(tags)
    IN  IF key \notin DOMAIN m.obj["_cached_param_shapes"]
        THEN LET r == get_params(m, tags)
             IN  IF r.err # "ok" THEN r
                 ELSE LET param_values == RunFetch(r.ret)
                          shapes == [i \in 1..Len(param_values) |-> param_values[i].shape]
                      IN  Return(CacheStore(r.m, "_cached_param_shapes", key, shapes),
                                 shapes)
        ELSE Return(m, m.obj["_cached_param_shapes"][key])

\* Regressor2.get_param_values
get_param_values(m, tags) ==
    LET r == get_params(m, tags)
    IN  IF r.err # "ok" THEN r
        ELSE Return(r.m, flatten_tensors(RunFetch(r.ret)))

\* set_param_values, the body of `if param not in self._cached_assign_ops`:
\* a placeholder of the parameter's dtype and the op assigning it to the parameter
NewAssignOp(m, param) ==
    LET assign_placeholder == [id |-> m.ph + 1, dtype |-> VarAttrs[param].dtype]
        assign_op == [ref |-> param, value |-> assign_placeholder]
        m1 == [m EXCEPT !.ph = m.ph + 1]
        m2 == CacheStore(m1, "_cached_assign_ops", param, assign_op)
        m3 == CacheStore(m2, "_cached_assign_placeholders", param, assign_placeholder)
    IN  LogAssign(m3, param)

\* an assign op made anew on every call
EnsureAssignOp_always(m, param) == NewAssignOp(m, param)

\* set_param_values, the cached assign op of one parameter, made when missing
EnsureAssignOp(m, param) ==
    IF param \notin DOMAIN m.obj["_cached_assign_ops"]
    THEN NewAssignOp(m, param)
    ELSE m

\* set_param_values, the loop over zip(params, dtypes, param_values) from its
\* i-th triple on: yields the machine state, the ops and the feed_dict
RECURSIVE AssignLoop(_, _, _, _, _, _, _)
AssignLoop(m, i, params, dtypes, param_values, ops, feed_dict) ==
    IF i > Min(Len(params), Min(Len(dtypes), Len(param_values)))
    THEN [m |-> m, ops |-> ops, feed_dict |-> feed_dict]
    ELSE LET m1 == EnsureAssignOp(m, params[i])
             op == m1.obj["_cached_assign_ops"][params[i]]
             ph == m1.obj["_cached_assign_placeholders"][params[i]]
             fed == [shape |-> param_values[i].shape,
                     data |-> AsType(param_values[i].data, dtypes[i])]
         IN  AssignLoop(m1, i + 1, params, dtypes, param_values,
                        Append(ops, op), DictSet(feed_dict, ph, fed))

\* a set_param_values that builds the ops and never runs them
set_param_values_norun(m, flattened_params, kwargs) ==
    LET tags == PopDebug(kwargs)
        failed(r) == [m |-> r.m, err |-> r.err, ret |-> None, session |-> session]
        s == get_param_shapes(m, tags)
    IN  IF s.err # "ok" THEN failed(s)
        ELSE LET u == unflatten_tensors(flattened_params, s.ret)
             IN  IF u.err # "ok" THEN failed([m |-> s.m, err |-> u.err])
                 ELSE LET p == get_params(s.m, tags)
                          d == get_param_dtypes(p.m, tags)
                          l == AssignLoop(d.m, 1, p.ret, d.ret, u.ret, <<>>, EmptyDict)
                      IN  [m |-> l.m, err |-> "ok", ret |-> None, session |-> session]

\* a set_param_values that zips the values with the untagged parameter list
set_param_values_untagged(m, flattened_params, kwargs) ==
    LET tags == PopDebug(kwargs)
        failed(r) == [m |-> r.m, err |-> r.err, ret |-> None, session |-> session]
        s == get_param_shapes(m, tags)
    IN  IF s.err # "ok" THEN failed(s)
        ELSE LET u == unflatten_tensors(flattened_params, s.ret)
             IN  IF u.err # "ok" THEN failed([m |-> s.m, err |-> u.err])
                 ELSE LET p == get_params(s.m, <<>>)
                          d == get_param_dtypes(p.m, tags)
                          l == AssignLoop(d.m, 1, p.ret, d.ret, u.ret, <<>>, EmptyDict)
                      IN  [m |-> l.m, err |-> "ok", ret |-> None,
                           session |-> RunAssign(l.ops, l.feed_dict)]

\* Regressor2.set_param_values; the result also carries the session's values
\* after the run of the assign ops
set_param_values(m, flattened_params, kwargs) ==
    LET tags == PopDebug(kwargs)
        failed(r) == [m |-> r.m, err |-> r.err, ret |-> None, session |-> session]
        s == get_param_shapes(m, tags)
    IN  IF s.err # "ok" THEN failed(s)
        ELSE LET u == unflatten_tensors(flattened_params, s.ret)
             IN  IF u.err # "ok" THEN failed([m |-> s.m, err |-> u.err])
                 ELSE LET p == get_params(s.m, tags)
                          d == get_param_dtypes(p.m, tags)
                          l == AssignLoop(d.m, 1, p.ret, d.ret, u.ret, <<>>, EmptyDict)
                      IN  [m |-> l.m, err |-> "ok", ret |-> None,
                           session |-> RunAssign(l.ops, l.feed_dict)]

\* a __getstate__ that forgets to delete the assign placeholders
__getstate__keeping(obj) ==
    LET new_dict == obj
        d1 == DictDel(new_dict, "_cached_params")
        d2 == DictDel(d1, "_cached_param_dtypes")
        d3 == DictDel(d2, "_cached_param_shapes")
        d4 == DictDel(d3, "_cached_assign_ops")
    IN  [obj |-> obj, ret |-> d4]

\* Regressor2.__getstate__: the object's __dict__ afterwards and the mapping
\* returned, a copy of the __dict__ with the five caches deleted
__getstate__(obj) ==
    LET new_dict == obj
        d1 == DictDel(new_dict, "_cached_params")
        d2 == DictDel(d1, "_cached_param_dtypes")
        d3 == DictDel(d2, "_cached_param_shapes")
        d4 == DictDel(d3, "_cached_assign_ops")
        d5 == DictDel(d4, "_cached_assign_placeholders")
    IN  [obj |-> obj, ret |-> d5]

\* a __setstate__ that leaves the parameter lists in place
__setstate__keeping(obj, state) ==
    LET o2 == DictSet(obj, "_cached_param_dtypes", EmptyDict)
        o3 == DictSet(o2, "_cached_param_shapes", EmptyDict)
        o4 == DictSet(o3, "_cached_assign_ops", EmptyDict)
        o5 == DictSet(o4, "_cached_assign_placeholders", EmptyDict)
    IN  DictUpdate(o5, state)

\* Regressor2.__setstate__: the object's __dict__ afterwards
__setstate__(obj, state) ==
    LET o1 == DictSet(obj, "_cached_params", EmptyDict)
        o2 == DictSet(o1, "_cached_param_dtypes", EmptyDict)
        o3 == DictSet(o2, "_cached_param_shapes", EmptyDict)
        o4 == DictSet(o3, "_cached_assign_ops", EmptyDict)
        o5 == DictSet(o4, "_cached_assign_placeholders", EmptyDict)
    IN  DictUpdate(o5, state)

\* Regressor2.fit
fit(m) == Raise(m, "NotImplementedError")

\* Regressor2.predict
predict(m) == Raise(m, "NotImplementedError")

\* StochasticRegressor2.log_likelihood_sym
log_likelihood_sym(m) == Raise(m, "NotImplementedError")

\* StochasticRegressor2.dist_info_sym
dist_info_sym(m) == Raise(m, "NotImplementedError")

----------------------------------------------------------------------------
(* The regressor as a state machine *)

InputShapes == {<<2, 2>>}

Called(op, tags, r) == [op |-> op, tags |-> tags, err |-> r.err, ret |-> r.ret]

\* one more method call, while the run is within its bound
Step == ncalls < MaxCalls /\ ncalls' = ncalls + 1

\* the effect of a parameter operation that only reads the session
Commit(op, tags, result) ==
    /\ Step
    /\ \E r \in {result} :
        /\ self' = r.m.obj
        /\ placeholders' = r.m.ph
        /\ trace' = r.m.trace
        /\ call' = Called(op, tags, r)
        /\ UNCHANGED <<overridden, variables, session, snapshots, qvars>>

GetParams(items) ==
    \E tags \in Kwargs(items) :
        Commit("get_params", tags, get_params(Machine, tags))

GetParamDtypes(items) ==
    \E tags \in Kwargs(items) :
        Commit("get_param_dtypes", tags, get_param_dtypes(Machine, tags))

GetParamShapes(items) ==
    \E tags \in Kwargs(items) :
        Commit("get_param_shapes", tags, get_param_shapes(Machine, tags))

GetParamValues(items) ==
    \E tags \in Kwargs(items) :
        Commit("get_param_values", tags, get_param_values(Machine, tags))

\* the flat vectors over vals a caller may hand to set_param_values for the
\* given tags: every vector of the length the selected parameters take, and
\* one that is too short and one that is too long
FlatVectors(tags, vals) ==
    LET s == get_param_shapes(Machine, tags)
        n == IF s.err = "ok"
             THEN Sum([i \in 1..Len(s.ret) |-> Prod(s.ret[i])])
             ELSE 0
    IN  [1..n -> vals] \cup {Zeros(<<n + 1>>)} \cup {Zeros(<<k>>) : k \in (n - 1)..(n - 1)}

SetParamValues(items, vals) ==
    /\ Step
    /\ \E kwargs \in Kwargs(items \cup DebugItems) :
        \E v \in FlatVectors(PopDebug(kwargs), vals) :
            \E r \in {set_param_values(Machine, v, kwargs)} :
                /\ self' = r.m.obj
                /\ placeholders' = r.m.ph
                /\ trace' = r.m.trace
                /\ session' = r.session
                /\ call' = [op |-> "set_param_values", tags |-> kwargs, err |-> r.err,
                            ret |-> IF r.err = "ok" THEN v ELSE None]
                /\ UNCHANGED <<overridden, variables, snapshots, qvars>>

\* the effect of a method that touches neither the parameters nor the caches
Abstract(op, result) ==
    /\ Step
    /\ \E r \in {result} :
        /\ self' = r.m.obj
        /\ placeholders' = r.m.ph
        /\ trace' = r.m.trace
        /\ call' = Called(op, <<>>, r)
        /\ UNCHANGED <<overridden, variables, session, snapshots, qvars>>

Fit == Abstract("fit", fit(Machine))

Predict == Abstract("predict", predict(Machine))

LogLikelihoodSym == Abstract("log_likelihood_sym", log_likelihood_sym(Machine))

DistInfoSym == Abstract("dist_info_sym", dist_info_sym(Machine))

\* pickling: __getstate__ is called and its mapping kept
GetState ==
    \E r \in {__getstate__(self)} :
        /\ self' = r.obj
        /\ snapshots' = snapshots \cup {r.ret}
        /\ call' = [op |-> "__getstate__", tags |-> <<>>, err |-> "ok", ret |-> None]
        /\ UNCHANGED <<overridden, variables, session, placeholders, trace, ncalls,
                       qvars>>

\* unpickling: __setstate__ is called with a mapping __getstate__ returned,
\* on the object itself or on a new, still empty object that replaces it
SetState ==
    /\ \E state \in snapshots, target \in {self, EmptyDict} :
        self' = __setstate__(target, state)
    /\ trace' = [NoTrace EXCEPT !.before = trace.internal]
    /\ call' = [op |-> "__setstate__", tags |-> <<>>, err |-> "ok", ret |-> None]
    /\ UNCHANGED <<overridden, variables, session, placeholders, snapshots, ncalls,
                   qvars>>

\* the subclass creates one more variable in the graph, initialised to zeros
CreateVariable ==
    /\ overridden
    /\ \E v \in VarNames \ {variables[i] : i \in DOMAIN variables} :
        /\ variables' = Append(variables, v)
        /\ session' = DictSet(session, v, Zeros(VarAttrs[v].shape))
    /\ UNCHANGED <<self, overridden, placeholders, snapshots, call, trace, ncalls,
                   qvars>>

----------------------------------------------------------------------------
(* DiscreteMLPQFunction *)

\* tf.VariableScope(reuse=False, name=name): a scope object of its own
VariableScope(id, reuse, name) == [id |-> id, reuse |-> reuse, name |-> name]

\* tf.placeholder(dtype, shape, name=name)
Placeholder(dtype, shape, name) ==
    [op |-> "placeholder", dtype |-> dtype, shape |-> shape, name |-> name]

\* MLPModel(output_dim=..., name=..., ...): a model with no network built yet
MLPModel(output_dim, name) ==
    [name |-> name, output_dim |-> output_dim, networks |-> EmptyDict]

\* Model.build(input, name=name), called inside the variable scope `scope`:
\* one more network under the given name (None means 'default'); a name
\* already built is refused
build(model, scope, input, name) ==
    LET network_name == IF name = None THEN "default" ELSE name
        outputs == [op |-> "mlp", network |-> network_name, input |-> input,
                    dim |-> model.output_dim]
        network == [input |-> input, outputs |-> outputs, scope |-> scope]
    IN  IF network_name \in DOMAIN model.networks
        THEN [model |-> model, err |-> "ValueError", ret |-> None]
        ELSE [model |-> [model EXCEPT !.networks = DictSet(@, network_name, network)],
              err |-> "ok", ret |-> outputs]

\* the observation placeholder of DiscreteMLPQFunction.__init__
ObsPlaceholder(obs_dim) == Placeholder("float32", <<None>> \o obs_dim, "obs")

\* DiscreteMLPQFunction.__init__
QFunctionInit(env_spec, name) ==
    LET obs_dim == env_spec.observation_space.shape
        action_dim == env_spec.action_space.flat_dim
        _variable_scope == VariableScope(1, FALSE, name)
        model == MLPModel(action_dim, name)
        obs_ph == ObsPlaceholder(obs_dim)
    IN  [_variable_scope |-> _variable_scope,
         model |-> build(model, _variable_scope, obs_ph, None).model]

\* DiscreteMLPQFunction.q_vals
q_vals(q) == q.model.networks["default"].outputs

\* DiscreteMLPQFunction.input
input(q) == q.model.networks["default"].input

\* a get_qval_sym that opens a variable scope of its own
get_qval_sym_fresh_scope(q, state_input, name) ==
    LET r == build(q.model, VariableScope(2, FALSE, name), state_input, name)
    IN  [q |-> [q EXCEPT !.model = r.model], err |-> r.err, ret |-> r.ret]

\* DiscreteMLPQFunction.get_qval_sym
get_qval_sym(q, state_input, name) ==
    LET r == build(q.model, q._variable_scope, state_input, name)
    IN  [q |-> [q EXCEPT !.model = r.model], err |-> r.err, ret |-> r.ret]

----------------------------------------------------------------------------
(* The Q-function as a state machine *)

ObsShapes == {<<2>>, <<2, 3>>}
ActionDims == {2, 3}
EnvSpecs ==
    {[observation_space |-> [shape |-> s], action_space |-> [flat_dim |-> d]] :
        s \in ObsShapes, d \in ActionDims}
QNames == {"discrete_mlp_q_function", "qf"}
NetworkNames == {"default", "target", "online", None}
StateInputs ==
    {Placeholder("float32", <<None>> \o s, n) : s \in ObsShapes, n \in {"state"}}

GetQvalSym ==
    \E state_input \in StateInputs, name \in NetworkNames :
        \E r \in {get_qval_sym(qf, state_input, name)} :
            /\ qf' = r.q
            /\ qcall' = [op |-> "get_qval_sym", name |-> name, input |-> state_input,
                         err |-> r.err, ret |-> r.ret]
            /\ UNCHANGED <<qargs, rvars>>

ReadQVals ==
    /\ qcall' = [op |-> "q_vals", name |-> None, input |-> None,
                 err |-> "ok", ret |-> q_vals(qf)]
    /\ UNCHANGED <<qf, qargs, rvars>>

ReadInput ==
    /\ qcall' = [op |-> "input", name |-> None, input |-> None,
                 err |-> "ok", ret |-> input(qf)]
    /\ UNCHANGED <<qf, qargs, rvars>>

----------------------------------------------------------------------------
(* Specifications *)

DefaultEnvSpec == [observation_space |-> [shape |-> <<2>>], action_space |-> [flat_dim |-> 2]]

InitRegressor(shapes, overrides) ==
    /\ \E input_shape \in shapes : self = RegressorInit(input_shape, 1, "regressor")
    /\ overridden \in overrides
    /\ variables = <<"W">>
    /\ session = [v \in {"W"} |-> Zeros(VarAttrs[v].shape)]
    /\ placeholders = 0
    /\ snapshots = {}
    /\ call = [op |-> "__init__", tags |-> <<>>, err |-> "ok", ret |-> None]
    /\ trace = NoTrace
    /\ ncalls = 0

InitQFunction(env_specs, names) ==
    /\ \E env_spec \in env_specs, name \in names :
        /\ qargs = [env_spec |-> env_spec, name |-> name]
        /\ qf = QFunctionInit(env_spec, name)
    /\ qcall = [op |-> "__init__", name |-> None, input |-> None,
                err |-> "ok", ret |-> None]

\* the regressor's bookkeeping over every tag and keyword order, all values
\* written being zero, beside a Q-function nobody calls
Init ==
    /\ InitRegressor(InputShapes, BOOLEAN)
    /\ InitQFunction({DefaultEnvSpec}, {"discrete_mlp_q_function"})

Next ==
    \/ GetParams(TagItems)
    \/ GetParamDtypes(TagItems)
    \/ GetParamShapes(TagItems)
    \/ GetParamValues(TagItems)
    \/ SetParamValues(TagItems, {0})
    \/ Fit
    \/ Predict
    \/ LogLikelihoodSym
    \/ DistInfoSym
    \/ GetState
    \/ SetState
    \/ CreateVariable

Spec == Init /\ [][Next]_vars

\* the regressor's parameter values over every number, the tags being none or
\* regularizable=False
ValueTagItems == {<<"regularizable", FALSE>>}

NextV ==
    \/ GetParams(ValueTagItems)
    \/ GetParamDtypes(ValueTagItems)
    \/ GetParamShapes(ValueTagItems)
    \/ GetParamValues(ValueTagItems)
    \/ SetParamValues(ValueTagItems, Val)
    \/ GetState
    \/ SetState
    \/ CreateVariable

SpecV == Init /\ [][NextV]_vars

\* the Q-function, beside a regressor nobody calls
InitQ ==
    /\ InitRegressor({<<1>>}, {FALSE})
    /\ InitQFunction(EnvSpecs, QNames)

NextQ ==
    \/ GetQvalSym
    \/ ReadQVals
    \/ ReadInput

SpecQ == InitQ /\ [][NextQ]_vars

----------------------------------------------------------------------------
(* Properties of the caches *)

cached_params == self["_cached_params"]
cached_param_dtypes == self["_cached_param_dtypes"]
cached_param_shapes == self["_cached_param_shapes"]
cached_assign_ops == self["_cached_assign_ops"]
cached_assign_placeholders == self["_cached_assign_placeholders"]

TagCaches == {"_cached_params", "_cached_param_dtypes", "_cached_param_shapes"}

\* the cache a getter reads and fills
CacheOf(op) ==
    CASE op = "get_params" -> "_cached_params"
      [] op = "get_param_dtypes" -> "_cached_param_dtypes"
      [] op = "get_param_shapes" -> "_cached_param_shapes"

\* a step that is a method call on the regressor
MethodCall(ops) == ncalls' = ncalls + 1 /\ call'.op \in ops

SortedKey(key) ==
    \A i, j \in DOMAIN key : i < j => NameRank(key[i][1]) < NameRank(key[j][1])

DtypesOf(params) == [i \in 1..Len(params) |-> VarAttrs[params[i]].dtype]
ShapesOf(params) == [i \in 1..Len(params) |-> VarAttrs[params[i]].shape]

\* the invocations of get_params_internal for a tag set that returned a list
Returned(tagset) ==
    IF tagset \in DOMAIN trace.internal
    THEN SelectSeq(trace.internal[tagset], LAMBDA e : e.err = "ok")
    ELSE <<>>

C1_Keys == \A c \in TagCaches : \A key \in DOMAIN self[c] : SortedKey(key)

C1_Step ==
    MethodCall({"get_params", "get_param_dtypes", "get_param_shapes"}) =>
        \A key \in DOMAIN self[CacheOf(call'.op)] :
            TagSet(key) = TagSet(call'.tags) =>
                /\ self'[CacheOf(call'.op)] = self[CacheOf(call'.op)]
                /\ call'.err = "ok"
                /\ call'.ret = self[CacheOf(call'.op)][key]

\* C1: the caches are keyed by the tag set, not by keyword order: every key is
\* the tag pairs sorted by name, and a get_params, get_param_dtypes or
\* get_param_shapes call whose tag set already has an entry, stored under any
\* keyword order, returns that entry and adds no entry to the cache.
C1_KeyedByTagSet == [](C1_Keys) /\ [][C1_Step]_vars

\* a get_params call answered from the entry that a call with the same tags
\* in another keyword order stored
C1_Witness ==
    /\ call.op = "get_params"
    /\ call.err = "ok"
    /\ Len(call.tags) = 2
    /\ Len(Returned(TagSet(call.tags))) = 1
    /\ Returned(TagSet(call.tags))[1].tags # call.tags

\* C2 as stated: every cached entry equals what would be computed now, also
\* after the subclass's parameter set has changed.
C2_CachesCurrent ==
    /\ \A key \in DOMAIN cached_params :
        cached_params[key] = SubclassParams(variables, key)
    /\ \A key \in DOMAIN cached_param_dtypes :
        cached_param_dtypes[key] = DtypesOf(SubclassParams(variables, key))
    /\ \A key \in DOMAIN cached_param_shapes :
        cached_param_shapes[key] = ShapesOf(SubclassParams(variables, key))

C2_Derived ==
    /\ \A key \in DOMAIN cached_params :
        \E n \in 0..Len(variables) :
            cached_params[key] = SubclassParams(Slice(variables, 0, n), key)
    /\ \A key \in DOMAIN cached_param_dtypes :
        /\ key \in DOMAIN cached_params
        /\ cached_param_dtypes[key] = DtypesOf(cached_params[key])
    /\ \A key \in DOMAIN cached_param_shapes :
        /\ key \in DOMAIN cached_params
        /\ cached_param_shapes[key] = ShapesOf(cached_params[key])

C2_Step ==
    \/ \A c \in CacheKeys : DOMAIN self'[c] = {}
    \/ /\ \A c \in TagCaches : \A key \in DOMAIN self[c] :
            key \in DOMAIN self'[c] /\ self'[c][key] = self[c][key]
       /\ \A key \in DOMAIN self'["_cached_params"] \ DOMAIN cached_params :
            self'["_cached_params"][key] = SubclassParams(variables, key)

\* C2, amended: the caches are derived and never invalidated by a change of
\* the parameter set: a cached parameter list is what get_params_internal
\* returned when the entry was stored (its result on the variables that
\* existed then), the cached dtypes and shapes are those of the cached list's
\* parameters, and an entry stays as stored until __setstate__ empties all
\* five caches.
C2_StoredUntilSetState == [](C2_Derived) /\ [][C2_Step]_vars

\* get_params has just answered from an entry that is no longer what
\* get_params_internal would return
C2_Witness ==
    /\ call.op = "get_params"
    /\ call.err = "ok"
    /\ tag_tuple(call.tags) \in DOMAIN cached_params
    /\ call.ret = cached_params[tag_tuple(call.tags)]
    /\ call.ret # SubclassParams(variables, call.tags)
    /\ tag_tuple(call.tags) \in DOMAIN cached_param_shapes

\* C3 as stated: get_params_internal is invoked at most once per tag set, and
\* get_params returns the list of that invocation.
C3_InvokedOnce ==
    /\ \A tagset \in DOMAIN trace.internal : Len(trace.internal[tagset]) <= 1
    /\ (call.op = "get_params" /\ call.err = "ok") =>
        /\ TagSet(call.tags) \in DOMAIN trace.internal
        /\ call.ret = trace.internal[TagSet(call.tags)][1].ret

\* C3, amended: between two __setstate__ calls get_params_internal returns at
\* most once per tag set (an invocation that raises stores nothing, so the
\* next call invokes it again), and every get_params call that returns
\* returns the list of that one invocation.
C3_ReturnsOnce ==
    /\ \A tagset \in DOMAIN trace.internal : Len(Returned(tagset)) <= 1
    /\ (call.op = "get_params" /\ call.err = "ok") =>
        /\ Len(Returned(TagSet(call.tags))) = 1
        /\ call.ret = Returned(TagSet(call.tags))[1].ret

\* a second get_params call for a tag set, made after the subclass created a
\* variable the tags select: it returned the first invocation's list
C3_Witness ==
    /\ ncalls = 2
    /\ call.op = "get_params"
    /\ call.err = "ok"
    /\ DOMAIN trace.internal = {TagSet(call.tags)}
    /\ Len(trace.internal[TagSet(call.tags)]) = 1
    /\ call.ret # SubclassParams(variables, call.tags)

----------------------------------------------------------------------------
(* Properties of pickling *)

AllCachesEmpty(obj) == \A c \in CacheKeys : c \in DOMAIN obj /\ DOMAIN obj[c] = {}

\* the mapping leaves the caches out and holds every other attribute of obj
SnapshotOf(state, obj) ==
    /\ DOMAIN state \cap CacheKeys = {}
    /\ DOMAIN state = DOMAIN obj \ CacheKeys
    /\ \A k \in DOMAIN state : state[k] = obj[k]

C4_Returned ==
    /\ SnapshotOf(__getstate__(self).ret, self)
    /\ \A state \in snapshots : SnapshotOf(state, self)

C4_Step ==
    (call'.op = "__getstate__" /\ (call.op # "__getstate__" \/ snapshots' # snapshots)) =>
        /\ self' = self
        /\ snapshots' = snapshots \cup {__getstate__(self).ret}

\* C4: the caches are excluded from any snapshot: the mapping __getstate__
\* returns holds none of the five cache keys and every other attribute with
\* its current value, and the call leaves the object's caches and other
\* attributes as they were.
C4_CachesExcluded == [](C4_Returned) /\ [][C4_Step]_vars

\* __getstate__ has just run on an object all of whose five caches hold entries
C4_Witness ==
    /\ call.op = "__getstate__"
    /\ \A c \in CacheKeys : DOMAIN self[c] # {}
    /\ snapshots # {}

C5_Restore ==
    /\ \A state \in snapshots \cup {__getstate__(self).ret} :
        \A target \in {self, EmptyDict} :
            /\ AllCachesEmpty(__setstate__(target, state))
            /\ SnapshotOf(state, __setstate__(target, state))
    /\ call.op = "__setstate__" =>
        AllCachesEmpty(self) /\ \A state \in snapshots : SnapshotOf(state, self)

C5_Step ==
    (/\ MethodCall({"get_params"})
     /\ call'.err = "ok"
     /\ TagSet(call'.tags) \notin DOMAIN trace.internal) =>
        /\ TagSet(call'.tags) \in DOMAIN trace'.internal
        /\ Len(trace'.internal[TagSet(call'.tags)]) = 1
        /\ call'.ret = SubclassParams(variables, call'.tags)

\* C5: snapshot round trip: __setstate__ applied to a mapping __getstate__
\* returned, on the object itself or on a new one, leaves all five caches
\* empty and every other attribute as in the mapping; so the first get_params
\* for a tag set after the restore invokes get_params_internal again and
\* returns its result, not an entry cached before the snapshot.
C5_RoundTrip == [](C5_Restore) /\ [][C5_Step]_vars

\* after a restore, get_params for a tag set cached before the restore has
\* invoked get_params_internal again and returned a list other than the one
\* cached then
C5_Witness ==
    /\ call.op = "get_params"
    /\ call.err = "ok"
    /\ TagSet(call.tags) \in DOMAIN trace.before
    /\ Len(Returned(TagSet(call.tags))) = 1
    /\ trace.before[TagSet(call.tags)][1].err = "ok"
    /\ trace.before[TagSet(call.tags)][1].ret # call.ret

----------------------------------------------------------------------------
(* Properties of the abstract methods *)

AbstractMethods == {"fit", "predict", "log_likelihood_sym", "dist_info_sym"}
ParamMethods ==
    {"get_params", "get_param_dtypes", "get_param_shapes", "get_param_values",
     "set_param_values"}

\* C6: the unimplemented contracts raise NotImplementedError: fit, predict,
\* log_likelihood_sym and dist_info_sym always do; and on an object whose class
\* does not override get_params_internal every parameter method raises it,
\* no cache ever holds an entry, no assign placeholder is created and no
\* parameter value changes.
C6_NotImplemented ==
    /\ call.op \in AbstractMethods => call.err = "NotImplementedError"
    /\ ~overridden =>
        /\ call.op \in ParamMethods => call.err = "NotImplementedError"
        /\ \A tagset \in DOMAIN trace.internal :
            \A i \in DOMAIN trace.internal[tagset] :
                trace.internal[tagset][i].err = "NotImplementedError"
        /\ AllCachesEmpty(self)
        /\ placeholders = 0
        /\ session = [v \in {"W"} |-> Zeros(VarAttrs[v].shape)]

\* set_param_values has raised on an object that does not override
\* get_params_internal, after an earlier parameter method did
C6_Witness ==
    /\ ~overridden
    /\ ncalls = 2
    /\ call.op = "set_param_values"
    /\ call.err = "NotImplementedError"
    /\ Len(call.tags) = 2

----------------------------------------------------------------------------
(* Properties of the assign ops *)

\* C8: the two assign caches hold the same parameters; the op cached for a
\* parameter assigns to that parameter from the placeholder cached for it; no
\* two parameters share a placeholder; and between two __setstate__ calls at
\* most one assign op is created per parameter, whatever tag sets the
\* set_param_values calls name.
C8_AssignOps ==
    /\ DOMAIN cached_assign_ops = DOMAIN cached_assign_placeholders
    /\ \A p \in DOMAIN cached_assign_ops :
        /\ cached_assign_ops[p].ref = p
        /\ cached_assign_ops[p].value = cached_assign_placeholders[p]
        /\ cached_assign_placeholders[p].dtype = VarAttrs[p].dtype
        /\ cached_assign_placeholders[p].id \in 1..placeholders
    /\ \A p, q \in DOMAIN cached_assign_ops :
        cached_assign_placeholders[p] = cached_assign_placeholders[q] => p = q
    /\ DOMAIN trace.assigns = DOMAIN cached_assign_ops
    /\ \A p \in DOMAIN trace.assigns : trace.assigns[p] = 1

\* two set_param_values calls with different, overlapping tag sets have run:
\* the second reused the op of the parameter both select and made one for the
\* parameter only it selects
C8_Witness ==
    /\ ncalls = 2
    /\ call.op = "set_param_values"
    /\ call.err = "ok"
    /\ DOMAIN cached_assign_ops = {"W", "b"}
    /\ Cardinality(DOMAIN cached_params) = 2
    /\ \A key \in DOMAIN cached_params : cached_params[key] # <<>>
    /\ placeholders = 2

----------------------------------------------------------------------------
(* Properties of the parameter values *)

SizeOf(p) == Prod(VarAttrs[p].shape)

\* the part of the flat vector v that belongs to the j-th of params, cast to
\* that parameter's dtype
PieceFor(params, j, v) ==
    LET before == Sum([i \in 1..(j - 1) |-> SizeOf(params[i])])
    IN  AsType([i \in 1..SizeOf(params[j]) |-> v[before + i]], VarAttrs[params[j]].dtype)

\* v cast element-wise to the dtypes of params, taken in order
CastFlat(params, v) == Concat([j \in 1..Len(params) |-> PieceFor(params, j, v)])

\* the parameters get_params selects for the tags in the current state
Selected(tags) ==
    LET r == get_params(Machine, tags)
    IN  IF r.err = "ok" THEN r.ret ELSE <<>>

\* C7: flatten/reassign round trip: right after a set_param_values(v, **tags)
\* that returned, with or without the keyword debug, get_param_values(**tags)
\* returns v cast element-wise to the dtypes of the parameters in get_params
\* order; and in every state set_param_values(get_param_values(**tags), **tags)
\* returns and leaves every parameter value as it is.
C7_RoundTrip ==
    /\ (call.op = "set_param_values" /\ call.err = "ok") =>
        LET tags == PopDebug(call.tags)
            got == get_param_values(Machine, tags)
        IN  Len(call.ret) = Sum([j \in 1..Len(Selected(tags)) |->
                                    SizeOf(Selected(tags)[j])]) =>
                /\ got.err = "ok"
                /\ got.ret = CastFlat(Selected(tags), call.ret)
    /\ overridden =>
        \A kwargs \in Kwargs(ValueTagItems \cup DebugItems) :
            LET got == get_param_values(Machine, PopDebug(kwargs))
                put == set_param_values(got.m, got.ret, kwargs)
            IN  got.err = "ok" /\ put.err = "ok" /\ put.session = session

\* set_param_values with the keyword debug has just written two parameters of
\* different dtypes, and the cast changed what was written
C7_Witness ==
    /\ call.op = "set_param_values"
    /\ call.err = "ok"
    /\ \E i \in DOMAIN call.tags : call.tags[i][1] = "debug"
    /\ Len(Selected(PopDebug(call.tags))) = 2
    /\ get_param_values(Machine, PopDebug(call.tags)).ret # call.ret
    /\ session["W"] # Zeros(VarAttrs["W"].shape)

C9_Step ==
    /\ DOMAIN session \subseteq DOMAIN session'
    /\ MethodCall({"set_param_values"}) =>
        LET params == Selected(PopDebug(call'.tags))
        IN  /\ \A p \in DOMAIN session :
                (\A j \in DOMAIN params : params[j] # p) => session'[p] = session[p]
            /\ call'.err # "ok" => session' = session
    /\ (\/ MethodCall({"get_params", "get_param_dtypes", "get_param_shapes",
                       "get_param_values"})
        \/ (call'.op = "__getstate__" /\ variables' = variables)) =>
        session' = session

\* C9: frame of the parameter operations: set_param_values(v, **tags) changes
\* in its one session run the values of only the parameters get_params(**tags)
\* returns and leaves the value of every other parameter unchanged (all of
\* them when it raises); get_params, get_param_dtypes, get_param_shapes,
\* get_param_values and __getstate__ change no parameter value.
C9_Frame == [][C9_Step]_vars

\* set_param_values has just rewritten the one parameter its tags select
\* while the other parameter kept a value an earlier call gave it
C9_Witness ==
    /\ ncalls = 2
    /\ call.op = "set_param_values"
    /\ call.err = "ok"
    /\ Selected(PopDebug(call.tags)) = <<"b">>
    /\ session["b"] # Zeros(VarAttrs["b"].shape)
    /\ session["W"] # Zeros(VarAttrs["W"].shape)

----------------------------------------------------------------------------
(* Properties of the Q-function *)

\* the network the constructor built
ConstructorNetwork ==
    [input |-> Placeholder("float32",
                           <<None>> \o qargs.env_spec.observation_space.shape, "obs"),
     outputs |-> [op |-> "mlp", network |-> "default",
                  input |-> Placeholder("float32",
                                <<None>> \o qargs.env_spec.observation_space.shape,
                                "obs"),
                  dim |-> qargs.env_spec.action_space.flat_dim],
     scope |-> [id |-> 1, reuse |-> FALSE, name |-> qargs.name]]

\* C10: the constructor builds exactly one network, 'default', from an
\* observation placeholder of shape (None,) + observation shape with output
\* dimension flat_dim, inside the variable scope named by `name`; every
\* network get_qval_sym builds is built inside that same variable scope
\* object; and q_vals and input stay the outputs and input of the
\* constructor's network whatever get_qval_sym calls follow.
C10_QNetworks ==
    /\ qcall.op = "__init__" => DOMAIN qf.model.networks = {"default"}
    /\ "default" \in DOMAIN qf.model.networks
    /\ qf.model.networks["default"] = ConstructorNetwork
    /\ q_vals(qf) = ConstructorNetwork.outputs
    /\ input(qf) = ConstructorNetwork.input
    /\ qf._variable_scope = ConstructorNetwork.scope
    /\ \A n \in DOMAIN qf.model.networks :
        qf.model.networks[n].scope = qf._variable_scope
    /\ (qcall.op = "get_qval_sym" /\ qcall.err = "ok") =>
        /\ qcall.name \in DOMAIN qf.model.networks
        /\ qf.model.networks[qcall.name].input = qcall.input
        /\ qf.model.networks[qcall.name].outputs = qcall.ret
    /\ qcall.op = "q_vals" => qcall.ret = ConstructorNetwork.outputs
    /\ qcall.op = "input" => qcall.ret = ConstructorNetwork.input

\* q_vals has been read after get_qval_sym built two more networks
C10_Witness ==
    /\ qcall.op = "q_vals"
    /\ DOMAIN qf.model.networks = {"default", "target", "online"}
    /\ qf.model.networks["target"].input # qf.model.networks["default"].input

====
